---- MODULE Spec2Model ----
(***************************************************************************)
(* Conversation / state lifecycle of NanoBananaChatForm                    *)
(* (src/Nano_Banana_Renderer-er_2025.py): Capture, Generate, Iterate,      *)
(* response processing and usage tracking.                                 *)
(*                                                                         *)
(* Threads.  Handlers run on the GUI thread (thread 0).  A Capture that is *)
(* not the first one is run by a threading.Timer thread (threads 1..) 0.5s *)
(* after the confirmation dialog, so it runs beside the GUI thread.  Each  *)
(* handler is cut at its one long blocking call, generate_content: the     *)
(* part up to the call is one step, the part after the call returns is a   *)
(* second step.  While the GUI thread waits in a call no GUI handler runs. *)
(*                                                                         *)
(* Data.  Bytes are sequences of small integers, <<>> standing for         *)
(* None / b"" (the code only tests truthiness).  An encoded image is       *)
(* <<encoder, picture>>.  Text is a sequence of chunks (characters for     *)
(* API replies), <<>> standing for None / "".                              *)
(***************************************************************************)
EXTENDS Integers, Sequences, FiniteSets, TLC

\* ---------------------------------------------------------------- bounds
\* generate_content calls issued in one run
MaxCalls == 2
\* executions of _execute_capture_viewport in one run
MaxCaptures == 2
\* generate_content calls issued in one run about calls in flight
MaxFlightCalls == 3
\* seconds an action is followed for, and lambdas queued for the GUI thread
MaxElapsed == 2
MaxAsync == 2
\* objects of the document, the first NumCurves of them curves
NumObjects == 3
NumCurves == 2

\* the objects of the document: two curves and a surface
SceneObjects == 1..NumObjects
IsCurve(i) == i <= NumCurves
DisplayModes == {"Wireframe", "Shaded", "Rendered"}

\* threading.Timer threads alive at one time
MaxTimerThreads == 1
\* parts of one candidate, and candidates of one reply, when replies are
\* enumerated
MaxParts == 2
MaxCandidates == 2
\* the largest input and output token count of a reply's usage metadata
MaxTokens == 2

\* ------------------------------------------------------ program constants
\* ref_previews holds 4 mood-board slots (range(4))
NumMoodSlots == 4
\* prices in units of 1e-7 USD per token: 0.30 USD / 1M tokens
input_price == 3
\* 2.50 USD / 1M tokens
output_price == 25
\* 0.039 USD per image, in units of 1e-7 USD
cost_per_image == 390000
tokens_per_image == 1290
\* len(text_content.strip()) > 10
MinAnalysisLen == 10

\* ------------------------------------------------------------------ data
NoBytes == <<>>
GUI == 0
Threads == 0..MaxTimerThreads
TimerThreads == 1..MaxTimerThreads

\* pictures: what the viewport shows, and what the API paints
ViewportPictures == {1}
ApiPictures == {2, 3}
\* encoders: .NET's PNG encoder, and whatever encoding the API replies with
NetPng == 80
ApiEnc == 71

\* bitmap_to_png_bytes: a .NET bitmap saved as PNG
bitmap_to_png_bytes(bmp) == <<NetPng, bmp>>
\* SD.Bitmap(path) / Drawing.Bitmap(stream): the picture a decodable file holds
LoadBitmap(bytes) == bytes[2]

Part_from_text(t) == [inline_data |-> NoBytes, text |-> t]
Part_from_bytes(d) == [inline_data |-> d, text |-> <<>>]
\* types.Content(role, parts); epoch is a history variable: the number of
\* Prompt_history purges done when the turn was put into Prompt_history
Content(role, parts, epoch) == [role |-> role, parts |-> parts, epoch |-> epoch]
\* a candidate whose content attribute is None
NoContent == [role |-> "none", parts |-> <<>>]

\* texts
structured_prompt == <<"Place what you see in the 3D viewport capture in a photo studio">>
strict_instruction == <<"Follow the primary reference image strictly.">>
UserPrompts == {<<>>, <<"make it red">>}
\* what prompt_tb holds in a session in which the prompt text plays no part
SessionPrompts == {<<"make it red">>}
ShortText == <<"O", "K">>
\* "data:image/png;base64,RwI=" : the payload decodes to <<71, 2>>
DataUriText == <<"d", "a", "t", "a", ":", "i", "m", "a", "g", "e", "/", "p", "n", "g",
                 ";", "b", "a", "s", "e", "6", "4", ",", "R", "w", "I", "=">>
\* " data:image/jpeg;base64,SAE=\n" : the payload decodes to <<72, 1>>
DataUriText2 == <<" ", "d", "a", "t", "a", ":", "i", "m", "a", "g", "e", "/", "j", "p",
                  "e", "g", ";", "b", "a", "s", "e", "6", "4", ",", "S", "A", "E", "=",
                  "\n">>
LongText == <<" ", "A", " ", "w", "a", "r", "m", " ", "s", "t", "u", "d", "i", "o", " ">>

IsSpace(c) == c \in {" ", "\n", "\t"}

RECURSIVE LStrip(_)
LStrip(s) == IF s # <<>> /\ IsSpace(Head(s)) THEN LStrip(Tail(s)) ELSE s

RECURSIVE RStrip(_)
RStrip(s) ==
    IF s # <<>> /\ IsSpace(s[Len(s)]) THEN RStrip(SubSeq(s, 1, Len(s) - 1)) ELSE s

\* str.strip()
Strip(s) == RStrip(LStrip(s))

\* ------------------------------------------------------------ API replies
NoUsage == [present |-> FALSE, prompt_token_count |-> 0,
            candidates_token_count |-> 0, total_token_count |-> 0]
SomeUsage == [present |-> TRUE, prompt_token_count |-> 1000,
              candidates_token_count |-> 2000, total_token_count |-> 3000]
\* usage metadata whose counts are all missing (getattr defaults to 0)
ZeroUsage == [present |-> TRUE, prompt_token_count |-> 0,
              candidates_token_count |-> 0, total_token_count |-> 0]

\* the bytes of an inline image part of a reply
ApiImage(pic) == <<ApiEnc, pic>>
Candidate(parts) == [content |-> [role |-> "model", parts |-> parts]]
EmptyCandidate == [content |-> NoContent]
Response(cands, usage) == [candidates |-> cands, usage_metadata |-> usage]

\* the replies a session step draws from: no candidate, a candidate without
\* content, an image, text only
SessionResponses ==
    { Response(<<>>, SomeUsage),
      Response(<<EmptyCandidate>>, SomeUsage),
      Response(<<Candidate(<<Part_from_bytes(ApiImage(2))>>)>>, SomeUsage),
      Response(<<Candidate(<<Part_from_text(LongText)>>)>>, SomeUsage) }

\* every reply of at most MaxCandidates candidates of at most MaxParts parts
ReplyParts ==
    { Part_from_bytes(ApiImage(2)), Part_from_bytes(ApiImage(3)),
      Part_from_text(ShortText), Part_from_text(LongText),
      Part_from_text(DataUriText) }
SeqsUpTo(S, n) == UNION { [1..k -> S] : k \in 0..n }
ReplyCandidates == {EmptyCandidate} \cup { Candidate(ps) : ps \in SeqsUpTo(ReplyParts, MaxParts) }
AllResponses ==
    { Response(cs, u) : cs \in SeqsUpTo(ReplyCandidates, MaxCandidates),
                        u \in {NoUsage, SomeUsage, ZeroUsage} }

\* ------------------------------------------------------ _process_response
\* _calculate_generation_cost(...)["total_cost"], in units of 1e-7 USD
\* (tokens / 1e6 * USD-per-1M-tokens = tokens * 1e-7 USD * price-in-units)
\* faulty variant: the fixed image price is left out of the total
calculate_generation_cost_TokensOnly(input_tokens, output_tokens) == input_tokens * input_price + output_tokens * output_price

\* _calculate_generation_cost (lines 427-444), total_cost for the fixed model
calculate_generation_cost(input_tokens, output_tokens) ==
    input_tokens * input_price + output_tokens * output_price + cost_per_image

\* lines 1689-1713: total_cost and total_tokens of a reply
UsageOf(response) ==
    LET u == response.usage_metadata IN
    IF u.present
    THEN [total_cost |-> calculate_generation_cost(u.prompt_token_count,
                                                   u.candidates_token_count),
          total_tokens |-> u.total_token_count]
    ELSE [total_cost |-> cost_per_image, total_tokens |-> tokens_per_image]

\* lines 1725-1737: one candidate's parts, walked in order; every part with
\* inline data assigns img_bytes, every part with substantial text assigns
\* analysis_text
RECURSIVE WalkParts(_, _, _)
WalkParts(parts, i, acc) ==
    IF i > Len(parts) THEN acc
    ELSE LET part == parts[i]
             img == IF part.inline_data # NoBytes THEN part.inline_data
                    ELSE acc.img_bytes
             txt == IF Strip(part.text) # <<>>
                       /\ Len(Strip(part.text)) > MinAnalysisLen
                    THEN Strip(part.text) ELSE acc.analysis_text
         IN WalkParts(parts, i + 1, [img_bytes |-> img, analysis_text |-> txt])

\* lines 1715-1737: all candidates, in order; a candidate without content is
\* skipped
RECURSIVE WalkCandidates(_, _, _)
WalkCandidates(cands, k, acc) ==
    IF k > Len(cands) THEN acc
    ELSE IF cands[k].content = NoContent THEN WalkCandidates(cands, k + 1, acc)
    ELSE WalkCandidates(cands, k + 1, WalkParts(cands[k].content.parts, 1, acc))

ExtractInline(response) ==
    WalkCandidates(response.candidates, 1,
                   [img_bytes |-> NoBytes, analysis_text |-> <<>>])

\* ---- base64.b64decode, on the characters the model's payloads use
B64Alphabet == <<"A","B","C","D","E","F","G","H","I","J","K","L","M","N","O","P",
                 "Q","R","S","T","U","V","W","X","Y","Z","a","b","c","d","e","f",
                 "g","h","i","j","k","l","m","n","o","p","q","r","s","t","u","v",
                 "w","x","y","z","0","1","2","3","4","5","6","7","8","9","+","/">>
IsB64Char(c) == \E n \in 1..Len(B64Alphabet) : B64Alphabet[n] = c
B64Value(c) == (CHOOSE n \in 1..Len(B64Alphabet) : B64Alphabet[n] = c) - 1

\* characters outside the alphabet are discarded (validate=False)
RECURSIVE B64Filter(_)
B64Filter(s) ==
    IF s = <<>> THEN <<>>
    ELSE IF IsB64Char(Head(s)) \/ Head(s) = "=" THEN <<Head(s)>> \o B64Filter(Tail(s))
    ELSE B64Filter(Tail(s))

\* one group of four characters: 3 bytes, or 2 or 1 with padding
B64Group(g) ==
    LET v(k) == IF g[k] = "=" THEN 0 ELSE B64Value(g[k])
        n == v(1) * 262144 + v(2) * 4096 + v(3) * 64 + v(4)
        bytes == <<n \div 65536, (n \div 256) % 256, n % 256>>
    IN IF g[3] = "=" THEN SubSeq(bytes, 1, 1)
       ELSE IF g[4] = "=" THEN SubSeq(bytes, 1, 2)
       ELSE bytes

\* binascii.Error: the length is no multiple of 4, or "=" is not at the end
B64Valid(s) ==
    LET f == B64Filter(s) IN
    /\ Len(f) % 4 = 0
    /\ \A k \in 1..Len(f) :
          f[k] = "=" => /\ k >= Len(f) - 1
                        /\ \A j \in k..Len(f) : f[j] = "="

RECURSIVE B64Groups(_)
B64Groups(f) ==
    IF f = <<>> THEN <<>> ELSE B64Group(SubSeq(f, 1, 4)) \o B64Groups(SubSeq(f, 5, Len(f)))

b64decode(s) == B64Groups(B64Filter(s))

\* data.startswith(prefix)
StartsWith(s, prefix) ==
    Len(s) >= Len(prefix) /\ SubSeq(s, 1, Len(prefix)) = prefix

DataImagePrefix == <<"d", "a", "t", "a", ":", "i", "m", "a", "g", "e">>

HasComma(s) == \E k \in 1..Len(s) : s[k] = ","
\* data.split(",", 1)[1]
AfterComma(s) ==
    LET k == CHOOSE k \in 1..Len(s) : s[k] = "," /\ \A j \in 1..(k - 1) : s[j] # ","
    IN SubSeq(s, k + 1, Len(s))

\* lines 1763-1773: the parts of one candidate; the first text that starts
\* with data:image and decodes without an exception assigns img_bytes and
\* ends the loop
RECURSIVE FallbackParts(_, _, _)
FallbackParts(parts, i, img_bytes) ==
    IF i > Len(parts) THEN img_bytes
    ELSE LET data == Strip(parts[i].text) IN
         IF /\ parts[i].text # <<>>
            /\ StartsWith(data, DataImagePrefix)
            /\ HasComma(data)
            /\ B64Valid(AfterComma(data))
         THEN b64decode(AfterComma(data))
         ELSE FallbackParts(parts, i + 1, img_bytes)

\* lines 1758-1776: the candidates in order, until img_bytes is not empty
RECURSIVE FallbackCandidates(_, _, _)
FallbackCandidates(cands, k, img_bytes) ==
    IF k > Len(cands) THEN img_bytes
    ELSE IF cands[k].content = NoContent
         THEN FallbackCandidates(cands, k + 1, img_bytes)
    ELSE LET got == FallbackParts(cands[k].content.parts, 1, img_bytes)
         IN IF got # NoBytes THEN got
            ELSE FallbackCandidates(cands, k + 1, got)

\* faulty variant: a data URI in a text part is preferred to an inline image
ExtractImage_UriFirst(response) ==
    LET uri == FallbackCandidates(response.candidates, 1, NoBytes)
    IN IF uri # NoBytes THEN uri ELSE ExtractInline(response).img_bytes

\* lines 1715-1780: img_bytes when the no-image test is made
ExtractImage(response) ==
    LET inline == ExtractInline(response).img_bytes
    IN IF inline # NoBytes THEN inline
       ELSE FallbackCandidates(response.candidates, 1, inline)

\* faulty variant: the no-image return comes before the reply is recorded
ReplyTurns_ImageOnly(response, epoch) ==
    IF response.candidates = <<>> \/ ExtractImage(response) = NoBytes THEN <<>>
    ELSE <<Content(response.candidates[1].content.role,
                   response.candidates[1].content.parts, epoch)>>

\* lines 1745-1751: the turn appended to Prompt_history, <<>> when there is
\* no candidate: candidates[0].content, also when it is None
ReplyTurns(response, epoch) ==
    IF response.candidates = <<>> THEN <<>>
    ELSE LET c == response.candidates[1].content
         IN <<Content(c.role, c.parts, epoch)>>

\* ------------------------------------------------------------- settings
\* what SETTINGS_FILE holds: nothing (no such file), a JSON record with the
\* key (TRUE: a non-empty "api_key") and the lifetime totals, or text
\* json.load cannot parse
NoSettingsFile ==
    [state |-> "absent", api_key |-> FALSE, total_tokens_used |-> 0, total_cost |-> 0]
CorruptSettingsFile ==
    [state |-> "corrupt", api_key |-> FALSE, total_tokens_used |-> 0, total_cost |-> 0]
SettingsJson(key, tokens, cost) ==
    [state |-> "json", api_key |-> key, total_tokens_used |-> tokens,
     total_cost |-> cost]

\* load_settings (lines 80-96): the key and totals of the file, the defaults
\* when there is no file or reading it raises
load_settings(file) ==
    IF file.state = "json"
    THEN [api_key |-> file.api_key, total_tokens_used |-> file.total_tokens_used,
          total_cost |-> file.total_cost]
    ELSE [api_key |-> FALSE, total_tokens_used |-> 0, total_cost |-> 0]

\* how save_settings may end: the file is written; mkdir or open raises and
\* the file is as it was; json.dump raises after open(..., 'w') truncated it
SaveOutcomes == {"written", "not_opened", "truncated"}
\* the settings file can be written
SessionSaves == {"written"}

\* save_settings (lines 99-106): every exception is caught and printed
save_settings(file, key, tokens, cost, how) ==
    IF how = "written" THEN SettingsJson(key, tokens, cost)
    ELSE IF how = "truncated" THEN CorruptSettingsFile
    ELSE file

\* ------------------------------------------------------------------ state
VARIABLES
    Prompt_history,             \* self.Prompt_history
    captured_viewport_bytes,    \* self._captured_viewport_bytes (NoBytes: None)
    viewport_captured,          \* self._viewport_captured
    first_capture,              \* self._first_capture
    last_generated_image_path,  \* "None", or the kind of file it names
    output_file,                \* bytes of the file it names (NoBytes: no such file)
    generate_btn,               \* self.generate_btn.Enabled
    iterate_btn,                \* self.iterate_btn.Enabled
    ref_previews,               \* slot -> whether the preview has a _file_path
    api_key_tb,                 \* api_key_tb.Text is non-empty
    GEMINI_API_KEY,             \* the environment variable is set and non-empty
    save_api_key_cb,            \* save_api_key_cb.Checked
    settings_api_key,           \* self.settings["api_key"] is non-empty
    usage,                      \* session_tokens, session_cost, settings totals
    settings_file,              \* SETTINGS_FILE: what it holds
    loaded,                     \* the totals load_settings returned at startup
    timer_running,              \* self.timer_running
    elapsed,                    \* time.time() - self.render_start_time, in seconds
    timer_thread,               \* self.timer_thread is alive
    timer_text,                 \* _timer_worker's timer_text, as seconds
    timer_label,                \* self.timer_label.Text, as seconds
    async_updates,              \* the AsyncInvoke'd lambdas not yet run
    DisplayMode,                \* the active viewport's DisplayMode
    Visible,                    \* object -> its Attributes.Visible in the document
    thread,                     \* thread -> where it is, and the contents it sent
    api_calls,                  \* generate_content calls issued so far
    purges,                     \* executions of _execute_capture_viewport so far
    lastOp                      \* the step just taken: handler, outcome, thread

vars == <<Prompt_history, captured_viewport_bytes, viewport_captured, first_capture,
          last_generated_image_path, output_file, generate_btn, iterate_btn,
          ref_previews, api_key_tb, GEMINI_API_KEY, save_api_key_cb, settings_api_key,
          usage, settings_file, loaded, timer_running, elapsed, timer_thread,
          timer_text, timer_label, async_updates, DisplayMode, Visible, thread,
          api_calls, purges, lastOp>>

\* the conversation state of the session
session == <<Prompt_history, captured_viewport_bytes, viewport_captured>>
result == <<last_generated_image_path, output_file>>
buttons == <<generate_btn, iterate_btn>>
key_inputs == <<api_key_tb, GEMINI_API_KEY, save_api_key_cb>>
widgets == <<ref_previews, key_inputs>>
persisted == <<settings_file, loaded, settings_api_key>>
timer == <<timer_running, elapsed, timer_thread, timer_text, timer_label, async_updates>>
scene == <<DisplayMode, Visible>>

\* lines 1289, 1334, 1434, 1506: the key a handler finds is non-empty
api_key == api_key_tb \/ GEMINI_API_KEY

MoodSlots == 1..NumMoodSlots
NoResponse == Response(<<>>, NoUsage)
\* lastOp: the handler part that ran, how it ended, on which thread, the reply
\* it processed (NoResponse when it processed none), the mood-board files
\* it could not read, whether it called save_settings and how
\* capture_active_view_shaded ended in it
Op(op, outcome, th, response) ==
    [op |-> op, outcome |-> outcome, th |-> th, response |-> response,
     unreadable |-> {}, saved |-> FALSE, way |-> "not_run"]
\* the step called save_settings
Saving(op) == [op EXCEPT !.saved = TRUE]
Idle == [pc |-> "idle", contents |-> <<>>]
InCall(pc, contents) == [pc |-> pc, contents |-> contents]

\* __init__ and _setup_widgets / _setup_status_bar
Init ==
    /\ Prompt_history = <<>>
    /\ captured_viewport_bytes = NoBytes
    /\ viewport_captured = FALSE
    /\ first_capture = TRUE
    /\ last_generated_image_path = "None"
    /\ output_file = NoBytes
    /\ generate_btn = FALSE
    /\ iterate_btn = FALSE
    /\ ref_previews = [i \in MoodSlots |-> FALSE]
    /\ settings_file = NoSettingsFile
    /\ loaded = load_settings(NoSettingsFile)
    /\ settings_api_key = loaded.api_key
    /\ api_key_tb = loaded.api_key
    /\ GEMINI_API_KEY \in BOOLEAN
    /\ save_api_key_cb = FALSE
    /\ usage = [session_tokens |-> 0, session_cost |-> 0,
                total_tokens_used |-> 0, total_cost |-> 0]
    /\ timer_running = FALSE
    /\ elapsed = 0
    /\ timer_thread = FALSE
    /\ timer_text = 0
    /\ timer_label = 0
    /\ async_updates = <<>>
    /\ DisplayMode = "Wireframe"
    /\ Visible = [i \in SceneObjects |-> TRUE]
    /\ thread = [t \in Threads |-> Idle]
    /\ api_calls = 0
    /\ purges = 0
    /\ lastOp = Op("init", "done", GUI, NoResponse)

\* ------------------------------------------------------------------ timer
\* a queued lambda of the living timer thread: it reads timer_text when it runs
Live == 0 - 1
\* the timer thread has ended: its timer_text stays what it is
Frozen(queue, text) ==
    [i \in DOMAIN queue |-> IF queue[i] = Live THEN text ELSE queue[i]]

\* _start_timer (lines 593-613): the start time is taken, a timer thread that
\* is alive is stopped and joined, and a new one is started
start_timer ==
    /\ timer_running' = TRUE
    /\ elapsed' = 0
    /\ timer_thread' = TRUE
    /\ async_updates' = Frozen(async_updates, timer_text)
    /\ UNCHANGED <<timer_text, timer_label>>

\* _stop_timer (lines 615-631): the timer thread is stopped and joined, then
\* the elapsed time is written to timer_label
stop_timer ==
    /\ timer_running' = FALSE
    /\ timer_thread' = FALSE
    /\ async_updates' = Frozen(async_updates, timer_text)
    /\ timer_label' = elapsed
    /\ UNCHANGED <<elapsed, timer_text>>

\* _start_timer and, later in the same handler, _stop_timer
start_stop_timer ==
    /\ timer_running' = FALSE
    /\ elapsed' = 0
    /\ timer_thread' = FALSE
    /\ async_updates' = Frozen(async_updates, timer_text)
    /\ timer_label' = 0
    /\ UNCHANGED timer_text

\* the thread _start_timer creates
TimerWorkerThread == MaxTimerThreads + 1

\* a second passes while an action runs
Tick ==
    /\ timer_running
    /\ elapsed < MaxElapsed
    /\ elapsed' = elapsed + 1
    /\ lastOp' = Op("tick", "done", GUI, NoResponse)
    /\ UNCHANGED <<session, first_capture, result, buttons, widgets, scene, usage, persisted,
                   timer_running, timer_thread, timer_text, timer_label,
                   async_updates, thread, api_calls, purges>>

\* one round of the loop of _timer_worker (lines 636-655): the text is
\* computed and a lambda that will write timer_text to timer_label is handed
\* to Application.Instance.AsyncInvoke
TimerWorker ==
    /\ timer_thread
    /\ timer_running
    /\ Len(async_updates) < MaxAsync
    /\ timer_text' = elapsed
    /\ async_updates' = Append(async_updates, Live)
    /\ lastOp' = Op("timer_worker", "queued", TimerWorkerThread, NoResponse)
    /\ UNCHANGED <<session, first_capture, result, buttons, widgets, scene, usage, persisted,
                   timer_running, elapsed, timer_thread, timer_label, thread,
                   api_calls, purges>>

\* the GUI thread, when no handler runs on it, runs the oldest queued lambda
\* (line 647): timer_label gets what timer_text is by then
RunAsyncUpdate ==
    /\ thread[GUI].pc = "idle"
    /\ async_updates # <<>>
    /\ timer_label' = (IF Head(async_updates) = Live THEN timer_text
                                                     ELSE Head(async_updates))
    /\ async_updates' = Tail(async_updates)
    /\ lastOp' = Op("async_update", "done", GUI, NoResponse)
    /\ UNCHANGED <<session, first_capture, result, buttons, widgets, scene, usage, persisted,
                   timer_running, elapsed, timer_thread, timer_text, thread,
                   api_calls, purges>>

\* ---------------------------------------------------------------- helpers
\* _track_cumulative_usage
track_cumulative_usage(u, tokens, cost) ==
    [session_tokens |-> u.session_tokens + tokens,
     session_cost |-> u.session_cost + cost,
     total_tokens_used |-> u.total_tokens_used + tokens,
     total_cost |-> u.total_cost + cost]

\* lines 1833-1838
TrackedUsage(u, response) ==
    LET r == UsageOf(response) IN
    IF response.usage_metadata.present /\ r.total_tokens > 0
    THEN track_cumulative_usage(u, r.total_tokens, r.total_cost)
    ELSE track_cumulative_usage(u, 0, r.total_cost)

\* the bytes of the image file a mood-board slot names
MoodFile(i) == <<77, i>>

\* read_file_as_part for each slot with a _file_path, in slot order; a file
\* that is no file any more, or cannot be read, gives no part
RECURSIVE MoodParts(_, _, _)
MoodParts(previews, unreadable, i) ==
    IF i > NumMoodSlots THEN <<>>
    ELSE (IF previews[i] /\ i \notin unreadable
          THEN <<Part_from_bytes(MoodFile(i))>> ELSE <<>>)
         \o MoodParts(previews, unreadable, i + 1)

\* on_generate lines 1452-1460 and 1484-1499: the parts of a fresh request
FreshParts(reference, user_prompt, previews, unreadable) ==
    LET text == IF Strip(user_prompt) # <<>>
                THEN strict_instruction \o Strip(user_prompt)
                ELSE strict_instruction \o <<"Create an image based on this reference.">>
    IN <<Part_from_bytes(reference), Part_from_text(text)>>
       \o MoodParts(previews, unreadable, 1)

\* faulty variant: the mood-board images are put before the instruction text
IterationParts_MoodFirst(reference, user_prompt, previews, unreadable) ==
    <<Part_from_bytes(reference)>> \o MoodParts(previews, unreadable, 1)
    \o <<Part_from_text(strict_instruction \o Strip(user_prompt))>>

\* on_generate lines 1515-1534: the parts of a request that continues
IterationParts(reference, user_prompt, previews, unreadable) ==
    LET text == IF Strip(user_prompt) # <<>>
                THEN strict_instruction \o Strip(user_prompt)
                ELSE strict_instruction \o <<"Continue with this image">>
    IN <<Part_from_bytes(reference), Part_from_text(text)>>
       \o MoodParts(previews, unreadable, 1)

\* _execute_capture_viewport lines 1389-1397
CaptureParts(png_bytes) ==
    <<Part_from_text(structured_prompt), Part_from_bytes(png_bytes)>>

\* ------------------------------------------------------ _process_response
\* how _process_response ends: lines 1778-1780, 1790 (open raises), 1794
ProcessOutcome(response, write_ok) ==
    IF ExtractImage(response) = NoBytes THEN "no_image"
    ELSE IF ~write_ok THEN "write_error"
    ELSE "stored"

\* faulty variant: a Generate's image becomes the reference as a Capture's does
ReferenceAfterStore_Always(reference, img_bytes, is_viewport_processing, decode) == IF decode # "fail" THEN img_bytes ELSE reference

\* lines 1805-1831: the reference after the previews are updated.  decode is
\* "ok" (SD.Bitmap loads the file), "reload" (it raises, Drawing.Bitmap loads
\* the bytes read back) or "fail" (both raise)
ReferenceAfterStore(reference, img_bytes, is_viewport_processing, decode) ==
    IF is_viewport_processing /\ decode # "fail" THEN img_bytes ELSE reference

\* _process_response (lines 1686-1841), run in the step in which
\* generate_content returns; save is how the save_settings call of
\* _track_cumulative_usage ends
process_response(response, is_viewport_processing, write_ok, decode, save) ==
    LET img_bytes == ExtractImage(response) IN
    /\ Prompt_history' = Prompt_history \o ReplyTurns(response, purges)
    /\ IF ProcessOutcome(response, write_ok) # "stored"
       THEN UNCHANGED <<captured_viewport_bytes, result, usage, persisted>>
       ELSE /\ last_generated_image_path' =
                  (IF is_viewport_processing THEN "viewport" ELSE "chat")
            /\ output_file' = img_bytes
            /\ captured_viewport_bytes' =
                  ReferenceAfterStore(captured_viewport_bytes, img_bytes,
                                      is_viewport_processing, decode)
            /\ usage' = TrackedUsage(usage, response)
            /\ settings_file' = save_settings(settings_file, settings_api_key,
                                              usage'.total_tokens_used,
                                              usage'.total_cost, save)
            /\ UNCHANGED <<loaded, settings_api_key>>

\* ------------------------------------------------- capture_active_view_shaded
\* lines 262-273: the curves the loop reached before it ended, or raised at
\* object hidden + 1, are recorded with their visibility and, if visible, hidden
RecordedCurves(hidden) == {i \in SceneObjects : i <= hidden /\ IsCurve(i)}
HideCurves(visible, hidden) ==
    [i \in SceneObjects |->
        IF i \in RecordedCurves(hidden) /\ visible[i] THEN FALSE ELSE visible[i]]

\* faulty variant: the scene is put back only when the capture returns
RestoreScene_OnReturnOnly(orig_mode, orig_visible, mode, visible, hidden, raised) == IF raised THEN [DisplayMode |-> mode, Visible |-> visible] ELSE [DisplayMode |-> orig_mode, Visible |-> [i \in SceneObjects |-> IF i \in RecordedCurves(hidden) /\ visible[i] # orig_visible[i] THEN orig_visible[i] ELSE visible[i]]]

\* the finally block (lines 315-331): every recorded curve whose visibility
\* differs from the recorded one gets it back, and the display mode is set
\* to orig_mode, whether the try block returned or raised
RestoreScene(orig_mode, orig_visible, mode, visible, hidden, raised) ==
    [DisplayMode |-> orig_mode,
     Visible |-> [i \in SceneObjects |->
                    IF i \in RecordedCurves(hidden) /\ visible[i] # orig_visible[i]
                    THEN orig_visible[i] ELSE visible[i]]]

\* how capture_active_view_shaded ends: it returns, there is no active view
\* (line 248), no Shaded mode (259), CaptureToBitmap returns None (311),
\* bitmap_to_png_bytes raises (313)
CaptureRaises == {"no_view", "no_shaded", "null_bitmap", "convert_error"}

\* capture_active_view_shaded (lines 244-331): the scene it leaves
capture_active_view_shaded(mode, visible, way, hidden) ==
    IF way \in {"not_run", "no_view", "no_shaded"}
    THEN [DisplayMode |-> mode, Visible |-> visible]
    ELSE RestoreScene(mode, visible, "Shaded", HideCurves(visible, hidden), hidden,
                      way \in CaptureRaises)

\* ----------------------------------------------------------------- Capture
CaptureFailures == {"none", "dir_error", "capture_error", "import_error"}

\* how capture_active_view_shaded ends in an _execute_capture_viewport that
\* ends with the given outcome
CaptureWays(outcome) ==
    IF outcome \in {"no_key", "dir_error"} THEN {"not_run"}
    ELSE IF outcome = "capture_error" THEN CaptureRaises
    ELSE {"returned"}

\* how the part of _execute_capture_viewport before the call ends: lines
\* 1335 (no key), 1345 (mkdir raises), 1351 (capture_active_view_shaded
\* raises), 1377 (ImportError), 1406 (generate_content is called)
CaptureOutcome(key, fail) ==
    IF ~key THEN "no_key" ELSE IF fail # "none" THEN fail ELSE "called"

\* lines 1353-1357 are reached: the snapshot is stored and the flag set
SnapshotStored(outcome) == outcome \in {"import_error", "called"}

\* faulty variant: the flag is set on entry, before the snapshot is taken
CaptureFlag_OnEntry(captured, outcome) == TRUE

\* line 1357: the flag is set once the snapshot is stored, and never cleared
CaptureFlag(captured, outcome) == SnapshotStored(outcome) \/ captured

\* faulty variant: the purge at line 1328 is missing and the request is appended
CaptureHistory_NoPurge(history, outcome, contents) ==
    IF outcome = "called" THEN history \o contents ELSE history

\* lines 1328 and 1400: Prompt_history is purged, and later set to the request
CaptureHistory(history, outcome, contents) ==
    IF outcome = "called" THEN contents ELSE <<>>

\* _execute_capture_viewport up to the generate_content call, on thread th,
\* in a run of at most calls generate_content calls, where the loop that hides
\* the curves ends after one of the stops objects
execute_capture_viewport_in(calls, stops, th, fail, picture) ==
    LET outcome == CaptureOutcome(api_key, fail)
        png_bytes == bitmap_to_png_bytes(picture)
        contents == <<Content("user", CaptureParts(png_bytes), purges + 1)>>
    IN /\ purges < MaxCaptures
       /\ outcome = "called" => api_calls < calls
       /\ first_capture' = FALSE
       /\ purges' = purges + 1
       /\ Prompt_history' = CaptureHistory(Prompt_history, outcome, contents)
       /\ captured_viewport_bytes' =
             (IF SnapshotStored(outcome) THEN png_bytes ELSE captured_viewport_bytes)
       /\ viewport_captured' = CaptureFlag(viewport_captured, outcome)
       /\ IF outcome = "called" THEN start_timer ELSE start_stop_timer
       /\ thread' = [thread EXCEPT ![th] =
             IF outcome = "called" THEN InCall("capture_call", contents) ELSE Idle]
       /\ api_calls' = (IF outcome = "called" THEN api_calls + 1 ELSE api_calls)
       /\ \E way \in CaptureWays(outcome), hidden \in stops :
             LET after == capture_active_view_shaded(DisplayMode, Visible, way, hidden)
             IN /\ DisplayMode' = after.DisplayMode
                /\ Visible' = after.Visible
                /\ lastOp' = [Op("execute_capture", outcome, th, NoResponse)
                                 EXCEPT !.way = way]
       /\ UNCHANGED <<result, buttons, widgets, usage, persisted>>

\* the loop that hides the curves reaches every object (lines 265-271)
execute_capture_viewport_within(calls, th, fail, picture) ==
    execute_capture_viewport_in(calls, {NumObjects}, th, fail, picture)

execute_capture_viewport(th, fail, picture) ==
    execute_capture_viewport_within(MaxCalls, th, fail, picture)

\* on_capture_viewport without a key (lines 1289-1298)
CaptureNoKey ==
    /\ thread[GUI].pc = "idle"
    /\ ~api_key
    /\ lastOp' = Op("on_capture_viewport", "no_key", GUI, NoResponse)
    /\ UNCHANGED <<session, first_capture, result, buttons, widgets, scene, usage, persisted,
                   timer, thread, api_calls, purges>>

\* on_capture_viewport, first capture (lines 1317-1319): runs on the GUI thread
CaptureFirst ==
    /\ thread[GUI].pc = "idle"
    /\ api_key
    /\ first_capture
    /\ \E fail \in CaptureFailures, picture \in ViewportPictures :
          execute_capture_viewport(GUI, fail, picture)

\* faulty variant: the memory is purged before the user is asked
CaptureDeclined_Purges ==
    /\ thread[GUI].pc = "idle"
    /\ api_key
    /\ ~first_capture
    /\ Prompt_history' = <<>>
    /\ lastOp' = Op("on_capture_viewport", "declined", GUI, NoResponse)
    /\ UNCHANGED <<captured_viewport_bytes, viewport_captured, first_capture, result,
                   buttons, widgets, scene, usage, persisted, timer, thread,
                   api_calls, purges>>

\* on_capture_viewport, later capture, the user answers No (lines 1301-1311)
CaptureDeclined ==
    /\ thread[GUI].pc = "idle"
    /\ api_key
    /\ ~first_capture
    /\ lastOp' = Op("on_capture_viewport", "declined", GUI, NoResponse)
    /\ UNCHANGED <<session, first_capture, result, buttons, widgets, scene, usage, persisted,
                   timer, thread, api_calls, purges>>

\* on_capture_viewport, later capture, the user answers Yes (lines 1313-1316):
\* a threading.Timer thread is started
CaptureConfirmed ==
    /\ thread[GUI].pc = "idle"
    /\ api_key
    /\ ~first_capture
    /\ purges + Cardinality({t \in TimerThreads : thread[t].pc = "delay"}) < MaxCaptures
    /\ \E t \in TimerThreads :
          /\ thread[t].pc = "idle"
          /\ thread' = [thread EXCEPT ![t] = InCall("delay", <<>>)]
    /\ lastOp' = Op("on_capture_viewport", "scheduled", GUI, NoResponse)
    /\ UNCHANGED <<session, first_capture, result, buttons, widgets, scene, usage, persisted,
                   timer, api_calls, purges>>

\* the Timer thread runs _execute_capture_viewport after its delay
TimerCapture ==
    \E t \in TimerThreads :
        /\ thread[t].pc = "delay"
        /\ \E fail \in CaptureFailures, picture \in ViewportPictures :
              execute_capture_viewport(t, fail, picture)

\* generate_content raises in _execute_capture_viewport (lines 1422-1424)
CaptureApiError ==
    \E th \in Threads :
        /\ thread[th].pc = "capture_call"
        /\ stop_timer
        /\ thread' = [thread EXCEPT ![th] = Idle]
        /\ lastOp' = Op("capture_reply", "api_error", th, NoResponse)
        /\ UNCHANGED <<session, first_capture, result, buttons, widgets, scene, usage, persisted,
                       api_calls, purges>>

\* generate_content returns in _execute_capture_viewport (lines 1412-1420)
\* with one of the given replies; the settings are saved in one of the given
\* ways
CaptureReplyWith(responses, saves) ==
    \E th \in Threads :
        /\ thread[th].pc = "capture_call"
        /\ \E response \in responses, write_ok \in BOOLEAN,
              decode \in {"ok", "reload", "fail"}, save \in saves :
              /\ process_response(response, TRUE, write_ok, decode, save)
              /\ lastOp' = [Op("capture_reply", ProcessOutcome(response, write_ok),
                               th, response)
                               EXCEPT !.saved = (ProcessOutcome(response, write_ok) = "stored")]
        /\ generate_btn' = TRUE
        /\ iterate_btn' = TRUE
        /\ stop_timer
        /\ thread' = [thread EXCEPT ![th] = Idle]
        /\ UNCHANGED <<viewport_captured, first_capture, widgets, scene, api_calls, purges>>

CaptureReplyFrom(responses) == CaptureReplyWith(responses, SessionSaves)

CaptureReply == CaptureReplyFrom(SessionResponses)

\* ---------------------------------------------------------------- Generate
\* faulty variant: the test at line 1429 is missing
GeneratePrecondition_Missing(captured, reference) == TRUE

\* line 1429: the request is made only with a captured reference
GeneratePrecondition(captured, reference) == captured /\ reference # NoBytes

\* faulty variant: every Generate starts a new one-turn sequence
GenerateContents_AlwaysFresh(history, reference, user_prompt, previews, unreadable, epoch) ==
    <<Content("user", FreshParts(reference, user_prompt, previews, unreadable), epoch)>>

\* lines 1510-1554: the contents sent, which also become Prompt_history
GenerateContents(history, reference, user_prompt, previews, unreadable, epoch) ==
    IF Len(history) > 0
    THEN Append(history,
                Content("user",
                        IterationParts(reference, user_prompt, previews, unreadable),
                        epoch))
    ELSE <<Content("user",
                   FreshParts(reference, user_prompt, previews, unreadable),
                   epoch)>>

\* the mood-board files that may have become unreadable: none, or one
UnreadableChoices == {{}} \cup {{i} : i \in {j \in MoodSlots : ref_previews[j]}}

\* on_generate rejected at line 1429
GenerateRejected ==
    /\ thread[GUI].pc = "idle"
    /\ ~GeneratePrecondition(viewport_captured, captured_viewport_bytes)
    /\ lastOp' = Op("on_generate", "precondition", GUI, NoResponse)
    /\ UNCHANGED <<session, first_capture, result, buttons, widgets, scene, usage, persisted,
                   timer, thread, api_calls, purges>>

\* faulty variant: the key test comes before the captured test
GenerateNoKey_First ==
    /\ thread[GUI].pc = "idle"
    /\ ~api_key
    /\ lastOp' = Op("on_generate", "no_key", GUI, NoResponse)
    /\ UNCHANGED <<session, first_capture, result, buttons, widgets, scene, usage, persisted,
                   timer, thread, api_calls, purges>>

\* on_generate without a key (lines 1434-1443)
GenerateNoKey ==
    /\ thread[GUI].pc = "idle"
    /\ GeneratePrecondition(viewport_captured, captured_viewport_bytes)
    /\ ~api_key
    /\ lastOp' = Op("on_generate", "no_key", GUI, NoResponse)
    /\ UNCHANGED <<session, first_capture, result, buttons, widgets, scene, usage, persisted,
                   timer, thread, api_calls, purges>>

\* _save_current_settings (lines 1246-1258), called at line 1449: the text of
\* api_key_tb is put into the settings, which are saved with the lifetime
\* totals they hold
save_current_settings(save) ==
    /\ settings_api_key' = api_key_tb
    /\ settings_file' = save_settings(settings_file, settings_api_key',
                                      usage.total_tokens_used, usage.total_cost, save)

\* on_generate ends before the call: mkdir raises (line 1470) or the import
\* fails (line 1479); the timer was started and is stopped
GenerateSetupError ==
    /\ thread[GUI].pc = "idle"
    /\ GeneratePrecondition(viewport_captured, captured_viewport_bytes)
    /\ api_key
    /\ \E save \in SessionSaves : save_current_settings(save)
    /\ \E fail \in {"dir_error", "import_error"} :
          lastOp' = Saving(Op("on_generate", fail, GUI, NoResponse))
    /\ start_stop_timer
    /\ UNCHANGED <<session, first_capture, result, buttons, widgets, scene, usage, loaded,
                   thread, api_calls, purges>>

\* on_generate up to the generate_content call (lines 1426-1560), with one of
\* the given texts in prompt_tb, in a run of at most calls generate_content
\* calls; the settings are saved in one of the given ways
GenerateCallWithin(calls, prompts, saves) ==
    /\ thread[GUI].pc = "idle"
    /\ GeneratePrecondition(viewport_captured, captured_viewport_bytes)
    /\ api_key
    /\ api_calls < calls
    /\ \E save \in saves : save_current_settings(save)
    /\ \E user_prompt \in prompts, unreadable \in UnreadableChoices :
          LET contents == GenerateContents(Prompt_history, captured_viewport_bytes,
                                           user_prompt, ref_previews, unreadable,
                                           purges)
          IN /\ Prompt_history' = contents
             /\ thread' = [thread EXCEPT ![GUI] = InCall("generate_call", contents)]
             /\ lastOp' = [Saving(Op("on_generate", "called", GUI, NoResponse))
                              EXCEPT !.unreadable = unreadable]
    /\ start_timer
    /\ api_calls' = api_calls + 1
    /\ UNCHANGED <<captured_viewport_bytes, viewport_captured, first_capture, result,
                   buttons, widgets, scene, usage, loaded, purges>>

GenerateCallWith(prompts, saves) == GenerateCallWithin(MaxCalls, prompts, saves)

GenerateCall == GenerateCallWith(SessionPrompts, SessionSaves)

\* generate_content raises in on_generate (lines 1561-1564)
GenerateApiError ==
    /\ thread[GUI].pc = "generate_call"
    /\ stop_timer
    /\ thread' = [thread EXCEPT ![GUI] = Idle]
    /\ lastOp' = Op("generate_reply", "api_error", GUI, NoResponse)
    /\ UNCHANGED <<session, first_capture, result, buttons, widgets, scene, usage, persisted,
                   api_calls, purges>>

\* generate_content returns in on_generate (lines 1566-1573) with one of the
\* given replies; the settings are saved in one of the given ways
GenerateReplyWith(responses, saves) ==
    /\ thread[GUI].pc = "generate_call"
    /\ \E response \in responses, write_ok \in BOOLEAN, save \in saves :
          /\ process_response(response, FALSE, write_ok, "ok", save)
          /\ lastOp' = [Op("generate_reply", ProcessOutcome(response, write_ok),
                           GUI, response)
                           EXCEPT !.saved = (ProcessOutcome(response, write_ok) = "stored")]
    /\ iterate_btn' = TRUE
    /\ stop_timer
    /\ thread' = [thread EXCEPT ![GUI] = Idle]
    /\ UNCHANGED <<viewport_captured, first_capture, generate_btn, widgets, scene,
                   api_calls, purges>>

GenerateReplyFrom(responses) == GenerateReplyWith(responses, SessionSaves)

GenerateReply == GenerateReplyFrom(SessionResponses)

\* ----------------------------------------------------------------- Iterate
\* faulty variant: the Path(...).exists() test is missing
IteratePrecondition_PathOnly(path, file) == path # "None"

\* line 1577: a last generated image path is set and the file exists
IteratePrecondition(path, file) == path # "None" /\ file # NoBytes

\* lines 1586-1591: the file is loaded and saved as PNG bytes
IterateReference(file) == bitmap_to_png_bytes(LoadBitmap(file))

\* on_iterate rejected at line 1577
IterateRejected ==
    /\ thread[GUI].pc = "idle"
    /\ ~IteratePrecondition(last_generated_image_path, output_file)
    /\ lastOp' = Op("on_iterate", "precondition", GUI, NoResponse)
    /\ UNCHANGED <<session, first_capture, result, buttons, widgets, scene, usage, persisted,
                   timer, thread, api_calls, purges>>

\* on_iterate: SD.Bitmap or bitmap_to_png_bytes raises (lines 1586-1587, 1614):
\* the file may be there and still not load
IterateLoadError ==
    /\ thread[GUI].pc = "idle"
    /\ IteratePrecondition(last_generated_image_path, output_file)
    /\ lastOp' = Op("on_iterate", "load_error", GUI, NoResponse)
    /\ UNCHANGED <<session, first_capture, result, buttons, widgets, scene, usage, persisted,
                   timer, thread, api_calls, purges>>

\* faulty variant: Iterate purges the memory as a Capture does
Iterate_Purges ==
    /\ thread[GUI].pc = "idle"
    /\ last_generated_image_path # "None"
    /\ output_file # NoBytes
    /\ captured_viewport_bytes' = bitmap_to_png_bytes(LoadBitmap(output_file))
    /\ Prompt_history' = <<>>
    /\ viewport_captured' = TRUE
    /\ iterate_btn' = FALSE
    /\ lastOp' = Op("on_iterate", "promoted", GUI, NoResponse)
    /\ UNCHANGED <<first_capture, result, generate_btn, widgets, scene,
                   usage, persisted, timer, thread, api_calls, purges>>

\* on_iterate (lines 1581-1612)
Iterate ==
    /\ thread[GUI].pc = "idle"
    /\ IteratePrecondition(last_generated_image_path, output_file)
    /\ output_file # NoBytes          \* SD.Bitmap loads an existing file only
    /\ captured_viewport_bytes' = IterateReference(output_file)
    /\ viewport_captured' = TRUE
    /\ iterate_btn' = FALSE
    /\ lastOp' = Op("on_iterate", "promoted", GUI, NoResponse)
    /\ UNCHANGED <<Prompt_history, first_capture, result, generate_btn, widgets, scene,
                   usage, persisted, timer, thread, api_calls, purges>>

\* ------------------------------------------------------- widgets and files
\* the user sets the display mode of the active viewport in Rhino
SetDisplayMode ==
    /\ \E mode \in DisplayModes \ {DisplayMode} : DisplayMode' = mode
    /\ lastOp' = Op("set_display_mode", "done", GUI, NoResponse)
    /\ UNCHANGED <<session, first_capture, result, buttons, widgets, Visible, usage,
                   persisted, timer, thread, api_calls, purges>>

\* the user hides or shows an object in Rhino
ToggleVisible ==
    /\ \E i \in SceneObjects : Visible' = [Visible EXCEPT ![i] = ~Visible[i]]
    /\ lastOp' = Op("toggle_visible", "done", GUI, NoResponse)
    /\ UNCHANGED <<session, first_capture, result, buttons, widgets, DisplayMode, usage,
                   persisted, timer, thread, api_calls, purges>>

\* _load_reference_preview: a mood-board slot gets a _file_path
SelectReferenceImage ==
    /\ thread[GUI].pc = "idle"
    /\ \E i \in MoodSlots : ref_previews' = [ref_previews EXCEPT ![i] = TRUE]
    /\ lastOp' = Op("select_reference_image", "done", GUI, NoResponse)
    /\ UNCHANGED <<session, first_capture, result, buttons, key_inputs, scene, usage, persisted,
                   timer, thread, api_calls, purges>>

\* _clear_reference_image
ClearReferenceImage ==
    /\ thread[GUI].pc = "idle"
    /\ \E i \in MoodSlots : ref_previews' = [ref_previews EXCEPT ![i] = FALSE]
    /\ lastOp' = Op("clear_reference_image", "done", GUI, NoResponse)
    /\ UNCHANGED <<session, first_capture, result, buttons, key_inputs, scene, usage, persisted,
                   timer, thread, api_calls, purges>>

\* the user edits api_key_tb
EditApiKey ==
    /\ thread[GUI].pc = "idle"
    /\ api_key_tb' = ~api_key_tb
    /\ lastOp' = Op("edit_api_key", "done", GUI, NoResponse)
    /\ UNCHANGED <<session, first_capture, result, buttons, ref_previews, scene,
                   GEMINI_API_KEY, save_api_key_cb, usage, persisted,
                   timer, thread, api_calls, purges>>

\* the user checks or unchecks "Save API Key" (lines 453-454); no handler is
\* attached to the box and no code reads it
ToggleSaveApiKey ==
    /\ thread[GUI].pc = "idle"
    /\ save_api_key_cb' = ~save_api_key_cb
    /\ lastOp' = Op("toggle_save_api_key", "done", GUI, NoResponse)
    /\ UNCHANGED <<session, first_capture, result, buttons, ref_previews, scene, api_key_tb,
                   GEMINI_API_KEY, usage, persisted, timer, thread,
                   api_calls, purges>>

\* the file last_generated_image_path names is removed from the output folder
RemoveOutputFile ==
    /\ output_file # NoBytes
    /\ output_file' = NoBytes
    /\ lastOp' = Op("remove_output_file", "done", GUI, NoResponse)
    /\ UNCHANGED <<session, first_capture, last_generated_image_path, buttons, widgets, scene,
                   usage, persisted, timer, thread, api_calls, purges>>

Next ==
    \/ CaptureNoKey
    \/ CaptureFirst
    \/ CaptureDeclined
    \/ CaptureConfirmed
    \/ TimerCapture
    \/ CaptureApiError
    \/ CaptureReply
    \/ GenerateRejected
    \/ GenerateNoKey
    \/ GenerateSetupError
    \/ GenerateCall
    \/ GenerateApiError
    \/ GenerateReply
    \/ IterateRejected
    \/ IterateLoadError
    \/ Iterate
    \/ EditApiKey
    \/ RemoveOutputFile

\* the form is opened while GEMINI_API_KEY is not set: the key is the one typed
\* into api_key_tb
InitSession == Init /\ ~GEMINI_API_KEY

\* the session: every handler, the Timer threads, the key box and the output
\* folder; the mood board stays empty, the prompt text is fixed and the key
\* comes from the key box
Spec == InitSession /\ [][Next]_vars

\* the mood board: the slots are set and cleared around a first Capture and
\* one Generate
GenerateCallAny == GenerateCallWith(UserPrompts, SessionSaves)

NextMood ==
    \/ CaptureFirst
    \/ CaptureApiError
    \/ CaptureReply
    \/ SelectReferenceImage
    \/ ClearReferenceImage
    \/ GenerateCallAny

SpecMood == Init /\ [][NextMood]_vars

\* reply parsing: a first Capture answered by any reply of AllResponses
CaptureReplyAny == CaptureReplyFrom(AllResponses)

NextParse ==
    \/ CaptureFirst
    \/ CaptureReplyAny

SpecParse == Init /\ [][NextParse]_vars

\* show_chat_ui after the form, or Rhino, was closed: a new form is built by
\* __init__, which loads the settings file; the output files stay on disk but
\* no path names one
Restart ==
    /\ Prompt_history' = <<>>
    /\ captured_viewport_bytes' = NoBytes
    /\ viewport_captured' = FALSE
    /\ first_capture' = TRUE
    /\ last_generated_image_path' = "None"
    /\ output_file' = NoBytes
    /\ generate_btn' = FALSE
    /\ iterate_btn' = FALSE
    /\ ref_previews' = [i \in MoodSlots |-> FALSE]
    /\ loaded' = load_settings(settings_file)
    /\ settings_api_key' = loaded'.api_key
    /\ api_key_tb' = loaded'.api_key
    /\ save_api_key_cb' = FALSE
    /\ usage' = [session_tokens |-> 0, session_cost |-> 0,
                 total_tokens_used |-> loaded'.total_tokens_used,
                 total_cost |-> loaded'.total_cost]
    /\ timer_running' = FALSE
    /\ elapsed' = 0
    /\ timer_thread' = FALSE
    /\ timer_text' = 0
    /\ timer_label' = 0
    /\ async_updates' = <<>>
    /\ thread' = [t \in Threads |-> Idle]
    /\ lastOp' = Op("restart", "done", GUI, NoResponse)
    /\ UNCHANGED <<settings_file, GEMINI_API_KEY, scene, api_calls, purges>>

\* the replies that differ in their usage metadata, and one without image
UsageResponses ==
    { Response(<<Candidate(<<Part_from_bytes(ApiImage(2))>>)>>, SomeUsage),
      Response(<<Candidate(<<Part_from_bytes(ApiImage(2))>>)>>, NoUsage),
      Response(<<Candidate(<<Part_from_bytes(ApiImage(2))>>)>>, ZeroUsage),
      Response(<<Candidate(<<Part_from_text(LongText)>>)>>, SomeUsage) }

CaptureReplyUsage == CaptureReplyWith(UsageResponses, SaveOutcomes)
GenerateCallUsage == GenerateCallWith(SessionPrompts, SaveOutcomes)
GenerateReplyUsage == GenerateReplyWith(UsageResponses, SaveOutcomes)

\* usage accounting: Captures and Generates whose replies differ in usage
\* metadata, settings writes that may fail, and restarts
NextUsage ==
    \/ CaptureFirst
    \/ CaptureReplyUsage
    \/ GenerateCallUsage
    \/ GenerateReplyUsage
    \/ Restart

SpecUsage == Init /\ [][NextUsage]_vars

\* usage metadata with every pair of token counts up to MaxTokens
TokenCounts == 0..MaxTokens
UsageMetadata(input_tokens, output_tokens) ==
    [present |-> TRUE, prompt_token_count |-> input_tokens,
     candidates_token_count |-> output_tokens,
     total_token_count |-> input_tokens + output_tokens]

\* replies with an image whose usage metadata is absent or carries any counts
CostResponses ==
    { Response(<<Candidate(<<Part_from_bytes(ApiImage(2))>>)>>, u) :
        u \in {NoUsage} \cup { UsageMetadata(i, o) : i, o \in TokenCounts } }

CaptureReplyCost == CaptureReplyWith(CostResponses, SessionSaves)
GenerateReplyCost == GenerateReplyWith(CostResponses, SessionSaves)

\* cost computation: Captures and Generates answered with an image and any
\* usage metadata
NextCost ==
    \/ CaptureFirst
    \/ CaptureReplyCost
    \/ GenerateCall
    \/ GenerateReplyCost

SpecCost == Init /\ [][NextCost]_vars

\* the one reply of the runs about the stored key: an image
KeyResponses ==
    { Response(<<Candidate(<<Part_from_bytes(ApiImage(2))>>)>>, SomeUsage) }

CaptureReplyKey == CaptureReplyWith(KeyResponses, SessionSaves)
GenerateReplyKey == GenerateReplyWith(KeyResponses, SessionSaves)

\* the stored key: the key box and the "Save API Key" box are changed around
\* Captures, Generates and restarts, with or without GEMINI_API_KEY
NextKey ==
    \/ EditApiKey
    \/ ToggleSaveApiKey
    \/ CaptureFirst
    \/ CaptureReplyKey
    \/ GenerateCall
    \/ GenerateReplyKey
    \/ Restart

SpecKey == Init /\ [][NextKey]_vars

\* calls in flight: a Capture, a confirmed second Capture on its Timer thread
\* and a Generate, every reply an image
TimerCaptureFlight ==
    \E t \in TimerThreads :
        /\ thread[t].pc = "delay"
        /\ \E picture \in ViewportPictures :
              execute_capture_viewport_within(MaxFlightCalls, t, "none", picture)
\* a click on the Generate button, which is enabled
GenerateCallFlight ==
    /\ generate_btn
    /\ GenerateCallWithin(MaxFlightCalls, SessionPrompts, SessionSaves)
\* a click on the Iterate button, which is enabled
IterateClick == iterate_btn /\ Iterate

NextFlight ==
    \/ CaptureFirst
    \/ CaptureReplyKey
    \/ CaptureDeclined
    \/ CaptureConfirmed
    \/ TimerCaptureFlight
    \/ GenerateCallFlight
    \/ GenerateReplyKey
    \/ IterateClick

SpecFlight == Init /\ [][NextFlight]_vars

\* the threads that have called generate_content and wait for it to return
InFlight == {t \in Threads : thread[t].pc \in {"capture_call", "generate_call"}}

\* the timer: a Capture and Generates run while seconds pass, the timer
\* thread updates the display and the GUI thread runs the queued updates
NextTimer ==
    \/ CaptureFirst
    \/ CaptureReplyKey
    \/ GenerateCallFlight
    \/ GenerateReplyKey
    \/ Tick
    \/ TimerWorker
    \/ RunAsyncUpdate

SpecTimer == Init /\ [][NextTimer]_vars

\* the scene: the user changes display mode and visibilities around Captures
HideLoopStops == 0..NumObjects

\* a first capture in which the loop that hides the curves may raise at any
\* object (line 272)
CaptureFirstScene ==
    /\ thread[GUI].pc = "idle"
    /\ api_key
    /\ first_capture
    /\ \E fail \in CaptureFailures, picture \in ViewportPictures :
          execute_capture_viewport_in(MaxCalls, HideLoopStops, GUI, fail, picture)

\* the same for a confirmed re-capture on its Timer thread
TimerCaptureScene ==
    \E t \in TimerThreads :
        /\ thread[t].pc = "delay"
        /\ \E fail \in CaptureFailures, picture \in ViewportPictures :
              execute_capture_viewport_in(MaxCalls, HideLoopStops, t, fail, picture)

NextScene ==
    \/ SetDisplayMode
    \/ ToggleVisible
    \/ CaptureFirstScene
    \/ CaptureReplyKey
    \/ CaptureConfirmed
    \/ TimerCaptureScene

SpecScene == Init /\ [][NextScene]_vars

\* the replies that carry images as inline data and as data URIs in texts
UriParts ==
    { Part_from_bytes(ApiImage(3)), Part_from_text(DataUriText),
      Part_from_text(DataUriText2) }
UriCandidates == {EmptyCandidate} \cup { Candidate(ps) : ps \in SeqsUpTo(UriParts, MaxParts) }
\* the candidates after the first carry at most one part
UriLaterCandidates == {EmptyCandidate} \cup { Candidate(<<p>>) : p \in UriParts }
UriResponses ==
    {Response(<<>>, SomeUsage)} \cup
    { Response(<<c>> \o cs, SomeUsage) :
        c \in UriCandidates, cs \in SeqsUpTo(UriLaterCandidates, MaxCandidates - 1) }

\* the data-URI fallback: a first Capture answered by any reply of UriResponses
CaptureReplyUri == CaptureReplyFrom(UriResponses)

NextUri ==
    \/ CaptureFirst
    \/ CaptureReplyUri

SpecUri == Init /\ [][NextUri]_vars

\* ================================================================== claims
Last(seq) == seq[Len(seq)]

\* C1: a Generate step and an Iterate step never shorten Prompt_history, and
\* a step that shortens it (in particular one that empties it) is a step of
\* _execute_capture_viewport.
C1_TurnsGrow ==
    [][ /\ lastOp'.op \in {"on_generate", "generate_reply", "on_iterate"}
           => Len(Prompt_history') >= Len(Prompt_history)
        /\ Len(Prompt_history') < Len(Prompt_history)
           => lastOp'.op = "execute_capture" ]_vars

\* C1 witness: a Generate has lengthened the history a Capture started
C1_Witness ==
    /\ lastOp.op = "generate_reply"
    /\ lastOp.outcome = "stored"
    /\ Len(Prompt_history) = 4

\* C2 as stated: when an executed Capture has completed, Prompt_history holds
\* no turns.
C2_Original ==
    (\/ lastOp.op = "capture_reply"
     \/ lastOp.op = "execute_capture" /\ lastOp.outcome # "called")
    => Prompt_history = <<>>

\* C2 amended: the step that executes a Capture leaves in Prompt_history
\* nothing (it ended before its request was built) or exactly the Capture's
\* own user turn, and no turn put there before the latest purge is ever in
\* Prompt_history.
C2_CapturePurges ==
    [][ /\ lastOp'.op = "execute_capture"
           => Prompt_history' =
                 IF lastOp'.outcome = "called"
                 THEN << [role |-> "user",
                          parts |-> <<Part_from_text(structured_prompt),
                                      Part_from_bytes(captured_viewport_bytes')>>,
                          epoch |-> purges'] >>
                 ELSE <<>>
        /\ \A k \in 1..Len(Prompt_history') : Prompt_history'[k].epoch = purges' ]_vars

\* C2 witness: a Capture has completed and left its request and reply turns
C2_Witness ==
    /\ lastOp.op = "capture_reply"
    /\ lastOp.outcome = "stored"
    /\ Len(Prompt_history) = 2
    /\ Prompt_history[1].role = "user"
    /\ Prompt_history[2].role = "model"

\* C3 as stated: the contents a Generate sends are the previous
\* Prompt_history followed by the new user turn (one user turn when it was
\* empty), none of them from before the latest purge; and when the call
\* returns a reply turn, Prompt_history becomes the contents sent followed by
\* that reply turn.
C3_Original ==
    [][ /\ (lastOp'.op = "on_generate" /\ lastOp'.outcome = "called")
           => LET sent == thread'[GUI].contents IN
              /\ Len(sent) = Len(Prompt_history) + 1
              /\ SubSeq(sent, 1, Len(Prompt_history)) = Prompt_history
              /\ Last(sent).role = "user"
              /\ \A k \in 1..Len(sent) : sent[k].epoch = purges
        /\ (/\ lastOp'.op = "generate_reply"
            /\ lastOp'.response.candidates # <<>>
            /\ lastOp'.response.candidates[1].content # NoContent)
           => LET sent == thread[GUI].contents
                  reply == lastOp'.response.candidates[1].content
              IN /\ Len(Prompt_history') = Len(sent) + 1
                 /\ SubSeq(Prompt_history', 1, Len(sent)) = sent
                 /\ Last(Prompt_history').role = reply.role
                 /\ Last(Prompt_history').parts = reply.parts ]_vars

\* the slot whose image file a part carries, 0 when it carries none
MoodSlotOf(part) ==
    IF \E i \in MoodSlots : part.inline_data = <<77, i>>
    THEN part.inline_data[2] ELSE 0

\* C4: the user turn a Generate builds (either branch) is the reference
\* image, then one text part, then one image part per set (and readable)
\* mood-board slot in slot order, and nothing for a slot that is not set; the
\* user turn a Capture builds has no mood-board part.
C4_PartOrder ==
    [][ /\ (lastOp'.op = "on_generate" /\ lastOp'.outcome = "called")
           => LET parts == Last(Prompt_history').parts
                  used == {i \in MoodSlots : ref_previews[i]} \ lastOp'.unreadable
              IN /\ Len(parts) = 2 + Cardinality(used)
                 /\ parts[1] = [inline_data |-> captured_viewport_bytes, text |-> <<>>]
                 /\ parts[2].inline_data = NoBytes
                 /\ parts[2].text # <<>>
                 /\ \A k \in 3..Len(parts) :
                       /\ parts[k].text = <<>>
                       /\ MoodSlotOf(parts[k]) \in used
                 /\ \A k, j \in 3..Len(parts) :
                       k < j => MoodSlotOf(parts[k]) < MoodSlotOf(parts[j])
        /\ (lastOp'.op = "execute_capture" /\ lastOp'.outcome = "called")
           => \A k \in 1..Len(Prompt_history'[1].parts) :
                 MoodSlotOf(Prompt_history'[1].parts[k]) = 0 ]_vars

\* C4 witness: a Generate that continues a conversation was built with slots
\* 1 and 3 set and slot 2 not set
C4_Witness ==
    /\ lastOp.op = "on_generate"
    /\ lastOp.outcome = "called"
    /\ lastOp.unreadable = {}
    /\ Len(Prompt_history) = 3
    /\ ref_previews[1] /\ ~ref_previews[2] /\ ref_previews[3]
    /\ Len(Last(Prompt_history).parts) = 4

\* C5: on_generate entered while _viewport_captured is false ends at the
\* precondition test: no call is issued, the timer is not started, and the
\* reference, Prompt_history, the last result and the usage counters are
\* unchanged.
C5_GenerateNeedsCapture ==
    [][ (lastOp'.op = "on_generate" /\ ~viewport_captured)
        => /\ lastOp'.outcome = "precondition"
           /\ UNCHANGED <<session, result, usage, persisted, timer_running, api_calls, thread>> ]_vars

\* C5 witness: Generate was rejected before any Capture
C5_Witness ==
    /\ lastOp.op = "on_generate"
    /\ lastOp.outcome = "precondition"
    /\ ~viewport_captured
    /\ api_calls = 0

\* C6 as stated: Iterate is rejected, and changes nothing, whenever no
\* Generate has returned an image since the reference was captured (the last
\* result, if any, is a Capture's).
C6_Original ==
    [][ (lastOp'.op = "on_iterate" /\ last_generated_image_path # "chat")
        => /\ lastOp'.outcome = "precondition"
           /\ UNCHANGED session ]_vars

\* C6 amended: Iterate is rejected, and changes nothing, whenever no result
\* file exists: no result was stored yet, or the stored file is gone.
C6_IterateNeedsResult ==
    [][ (/\ lastOp'.op = "on_iterate"
         /\ (last_generated_image_path = "None" \/ output_file = NoBytes))
        => /\ lastOp'.outcome = "precondition"
           /\ UNCHANGED <<session, result, usage, persisted, api_calls, thread>> ]_vars

\* C6 witness: Iterate was rejected in Captured, after a Capture whose reply
\* carried no image
C6_Witness ==
    /\ lastOp.op = "on_iterate"
    /\ lastOp.outcome = "precondition"
    /\ viewport_captured
    /\ last_generated_image_path = "None"

\* C7: an Iterate that succeeds makes the reference the PNG bytes of the
\* picture in the last result file, and leaves Prompt_history, the usage
\* counters and the calls issued as they were, with _viewport_captured true.
C7_IterateFrame ==
    [][ (lastOp'.op = "on_iterate" /\ lastOp'.outcome = "promoted")
        => /\ captured_viewport_bytes' = <<NetPng, output_file[2]>>
           /\ Prompt_history' = Prompt_history
           /\ viewport_captured /\ viewport_captured'
           /\ UNCHANGED <<usage, persisted, api_calls, thread, result>> ]_vars

\* C7 witness: a Generate result was promoted while turns were recorded
C7_Witness ==
    /\ lastOp.op = "on_iterate"
    /\ lastOp.outcome = "promoted"
    /\ last_generated_image_path = "chat"
    /\ captured_viewport_bytes[2] \in ApiPictures
    /\ Len(Prompt_history) >= 3

\* C8: whenever _viewport_captured is true the reference holds bytes.
C8_CapturedHasReference ==
    viewport_captured => captured_viewport_bytes # NoBytes

\* C8 witness: a later Capture failed at the snapshot while a reference was held
C8_Witness ==
    /\ lastOp.op = "execute_capture"
    /\ lastOp.outcome = "capture_error"
    /\ viewport_captured

\* the inline image data the parts of a reply carry
InlineData(response) ==
    UNION { { response.candidates[k].content.parts[j].inline_data :
                j \in 1..Len(response.candidates[k].content.parts) } :
            k \in 1..Len(response.candidates) } \ {NoBytes}

\* C9 as stated: when the call of a Capture returns a reply that carries an
\* image, the reference held when the Capture ends is that reply's image and
\* no longer the viewport snapshot.
C9_Original ==
    [][ (lastOp'.op = "capture_reply" /\ InlineData(lastOp'.response) # {})
        => captured_viewport_bytes' \in InlineData(lastOp'.response) ]_vars

\* the positions of the parts that carry inline image data
InlineParts(parts) == {j \in 1..Len(parts) : parts[j].inline_data # NoBytes}

\* C10 as stated: from a reply whose candidate has more than one part with
\* inline image data, the image stored is that of the first such part.
C10_Original ==
    [][ (/\ lastOp'.op = "capture_reply"
         /\ lastOp'.outcome = "stored"
         /\ Len(lastOp'.response.candidates) = 1
         /\ Cardinality(InlineParts(lastOp'.response.candidates[1].content.parts)) > 1)
        => LET parts == lastOp'.response.candidates[1].content.parts
               first == CHOOSE j \in InlineParts(parts) :
                           \A i \in InlineParts(parts) : j <= i
           IN output_file' = parts[first].inline_data ]_vars

\* the reply cut down to its first candidate
FirstCandidateOnly(response) ==
    Response(<<response.candidates[1]>>, response.usage_metadata)

\* C11 as stated: when a reply has several candidates, the image stored is
\* the one candidate 0 alone would give (none when candidate 0 has none), and
\* the turn appended to Prompt_history is candidate 0's content.
C11_Original ==
    [][ (lastOp'.op = "capture_reply" /\ Len(lastOp'.response.candidates) > 1)
        => LET first == FirstCandidateOnly(lastOp'.response) IN
           /\ ExtractImage(first) = NoBytes => lastOp'.outcome = "no_image"
           /\ lastOp'.outcome = "stored" => output_file' = ExtractImage(first)
           /\ Last(Prompt_history').parts = first.candidates[1].content.parts ]_vars

\* the texts the parts of a reply carry
ReplyTexts(response) ==
    UNION { { response.candidates[k].content.parts[j].text :
                j \in 1..Len(response.candidates[k].content.parts) } :
            k \in 1..Len(response.candidates) }

\* the reply has no inline image and no text that is a data URI
NoImageIn(response) ==
    /\ InlineData(response) = {}
    /\ \A t \in ReplyTexts(response) : ~StartsWith(Strip(t), DataImagePrefix)

\* C12: when a call returns a reply without an inline image and without a
\* data-URI text, the step ends as "no image", the content of candidate 0
\* (when there is a candidate) is appended to Prompt_history, and the
\* reference, the captured flag and the last result are unchanged.
C12_NoImageKeepsReply ==
    [][ (/\ lastOp'.op \in {"capture_reply", "generate_reply"}
         /\ lastOp'.outcome # "api_error"
         /\ NoImageIn(lastOp'.response))
        => LET cands == lastOp'.response.candidates IN
           /\ lastOp'.outcome = "no_image"
           /\ Len(Prompt_history') = Len(Prompt_history) + (IF cands = <<>> THEN 0 ELSE 1)
           /\ SubSeq(Prompt_history', 1, Len(Prompt_history)) = Prompt_history
           /\ cands # <<>> => /\ Last(Prompt_history').role = cands[1].content.role
                              /\ Last(Prompt_history').parts = cands[1].content.parts
           /\ UNCHANGED <<captured_viewport_bytes, viewport_captured, result>> ]_vars

\* C12 witness: a Generate was answered with text only, after a Capture that
\* stored an image
C12_Witness ==
    /\ lastOp.op = "generate_reply"
    /\ lastOp.outcome = "no_image"
    /\ last_generated_image_path = "viewport"
    /\ Len(Prompt_history) = 4
    /\ Last(Prompt_history).role = "model"
    /\ Last(Prompt_history).parts = <<Part_from_text(LongText)>>

\* what base64-decoding the payload of a data-URI text gives: "RwI=" is the
\* base64 of the bytes 71, 2 and "SAE=" that of the bytes 72, 1
UriBytes(t) == IF t = DataUriText THEN <<71, 2>> ELSE <<72, 1>>

\* C13: the image stored from a reply with an inline image part is an inline
\* image of the reply, whatever data URIs its texts carry; the image stored
\* from a reply without inline image is the decoded payload of a data URI
\* of the reply, and of the only one when there is only one.
C13_DataUriFallback ==
    [][ (lastOp'.op = "capture_reply" /\ lastOp'.outcome = "stored")
        => IF InlineData(lastOp'.response) # {}
           THEN output_file' \in InlineData(lastOp'.response)
           ELSE output_file' \in { UriBytes(t) : t \in ReplyTexts(lastOp'.response) \ {<<>>} } ]_vars

\* C13 witness: the image of a reply whose only image is a data URI was stored
C13_Witness ==
    /\ lastOp.op = "capture_reply"
    /\ lastOp.outcome = "stored"
    /\ lastOp.response.candidates = <<Candidate(<<Part_from_text(DataUriText2)>>)>>
    /\ output_file = <<72, 1>>
    /\ captured_viewport_bytes = <<72, 1>>

\* C14 as stated: the step in which generate_content raises stops the timer
\* and leaves the session as it was before the action started: for a
\* Generate, Prompt_history is the contents sent without the new user turn;
\* for the first Capture, the session is the one __init__ made.
C14_Original ==
    [][ /\ (lastOp'.op = "generate_reply" /\ lastOp'.outcome = "api_error")
           => LET sent == thread[GUI].contents IN
              /\ ~timer_running'
              /\ Prompt_history' = SubSeq(sent, 1, Len(sent) - 1)
              /\ UNCHANGED <<captured_viewport_bytes, viewport_captured, result, usage, persisted>>
        /\ (lastOp'.op = "capture_reply" /\ lastOp'.outcome = "api_error"
            /\ lastOp'.th = GUI)
           => /\ ~timer_running'
              /\ Prompt_history' = <<>>
              /\ captured_viewport_bytes' = NoBytes
              /\ ~viewport_captured'
              /\ UNCHANGED <<result, usage, persisted>> ]_vars

\* C15 as stated: a Capture in which capture_active_view_shaded raises
\* leaves the reference, Prompt_history, the captured flag and the
\* first-capture flag as they were.
C15_Original ==
    [][ (lastOp'.op = "execute_capture" /\ lastOp'.outcome = "capture_error")
        => UNCHANGED <<session, first_capture>> ]_vars

C17_Original ==
    [][ (/\ lastOp'.op \in {"capture_reply", "generate_reply"}
         /\ lastOp'.outcome # "api_error"
         /\ ExtractImage(lastOp'.response) # NoBytes)
        => /\ usage'.session_cost > usage.session_cost
           /\ usage'.total_cost > usage.total_cost
           /\ last_generated_image_path' =
                 (IF lastOp'.op = "capture_reply" THEN "viewport" ELSE "chat") ]_vars

\* the settings half of C17 alone: when the output file was written, the
\* counters grow and the result is set however the settings write ends
SettingsWriteFailureTolerated ==
    [][ (/\ lastOp'.op \in {"capture_reply", "generate_reply"}
         /\ lastOp'.outcome = "stored")
        => /\ usage'.session_cost > usage.session_cost
           /\ usage'.total_cost > usage.total_cost
           /\ last_generated_image_path' =
                 (IF lastOp'.op = "capture_reply" THEN "viewport" ELSE "chat") ]_vars

\* C18: the cost charged for a stored reply is input tokens times the input
\* price plus output tokens times the output price plus the fixed price per
\* image when the reply has usage metadata, which for 0 input and 0 output
\* tokens is exactly the price per image, and it is the price per image alone
\* when the reply has no usage metadata.
C18_CostFormula ==
    [][ (/\ lastOp'.op \in {"capture_reply", "generate_reply"}
         /\ lastOp'.outcome = "stored")
        => LET u == lastOp'.response.usage_metadata
               charged == usage'.session_cost - usage.session_cost
           IN /\ u.present
                 => charged = u.prompt_token_count * input_price
                              + u.candidates_token_count * output_price
                              + cost_per_image
              /\ (u.present /\ u.prompt_token_count = 0
                            /\ u.candidates_token_count = 0)
                 => charged = cost_per_image
              /\ ~u.present => charged = cost_per_image ]_vars

\* C18 witness: a Capture's reply with usage metadata of 0 input and 0 output
\* tokens was stored and the session cost is the price of one image
C18_Witness ==
    /\ lastOp.op = "capture_reply"
    /\ lastOp.outcome = "stored"
    /\ lastOp.response.usage_metadata = UsageMetadata(0, 0)
    /\ usage.session_cost = cost_per_image
    /\ usage.total_cost = cost_per_image

\* C19: no step, a restart included, lowers the lifetime token counter or the
\* lifetime cost counter.
C19_Original ==
    [][ /\ usage'.total_tokens_used >= usage.total_tokens_used
        /\ usage'.total_cost >= usage.total_cost ]_vars

\* within one run of the form the lifetime counters never decrease
LifetimeMonotoneInProcess ==
    [][ lastOp'.op # "restart"
        => /\ usage'.total_tokens_used >= usage.total_tokens_used
           /\ usage'.total_cost >= usage.total_cost ]_vars

\* a restart that finds the file the last save_settings call wrote loads the
\* counters that call was given
RestartLoadsWrittenTotals ==
    [][ (lastOp'.op = "restart" /\ settings_file.state = "json")
        => /\ usage'.total_tokens_used = settings_file.total_tokens_used
           /\ usage'.total_cost = settings_file.total_cost ]_vars

\* C20: every call that returns a reply adds the cost computed for that reply
\* once to the session cost and once to the lifetime cost, and the lifetime
\* cost less the lifetime cost loaded at startup is the session cost.
C20_Original ==
    [][ (/\ lastOp'.op \in {"capture_reply", "generate_reply"}
         /\ lastOp'.outcome # "api_error")
        => LET cost == UsageOf(lastOp'.response).total_cost
           IN /\ usage'.session_cost = usage.session_cost + cost
              /\ usage'.total_cost = usage.total_cost + cost
              /\ usage'.total_cost - loaded'.total_cost = usage'.session_cost ]_vars

\* the lifetime counters less those loaded at startup are the session counters
SessionIsLifetimeGrowth ==
    /\ usage.total_cost - loaded.total_cost = usage.session_cost
    /\ usage.total_tokens_used - loaded.total_tokens_used = usage.session_tokens

\* a reply whose image was stored is charged once to both cost counters
StoredReplyChargedOnce ==
    [][ (/\ lastOp'.op \in {"capture_reply", "generate_reply"}
         /\ lastOp'.outcome = "stored")
        => LET cost == UsageOf(lastOp'.response).total_cost
           IN /\ usage'.session_cost = usage.session_cost + cost
              /\ usage'.total_cost = usage.total_cost + cost ]_vars

\* C21: while "Save API Key" is unchecked no step writes a settings file that
\* holds a non-empty key.
C21_Original ==
    [][ (~save_api_key_cb /\ settings_file' # settings_file)
        => ~(settings_file'.state = "json" /\ settings_file'.api_key) ]_vars

\* what is written as the key is the text api_key_tb held at the last
\* on_generate, or else the key loaded at startup, whatever the box says
WrittenKeyIsSettingsKey ==
    [][ (settings_file' # settings_file /\ settings_file'.state = "json")
        => settings_file'.api_key = settings_api_key' ]_vars

\* C22: every Capture and Generate whose reply was stored and every Iterate
\* that promoted the result calls save_settings and leaves in the settings
\* file the key of the key box and the lifetime totals.
C22_Original ==
    [][ (\/ lastOp'.op \in {"capture_reply", "generate_reply"}
            /\ lastOp'.outcome = "stored"
         \/ lastOp'.op = "on_iterate" /\ lastOp'.outcome = "promoted")
        => /\ lastOp'.saved
           /\ settings_file' = SettingsJson(api_key_tb', usage'.total_tokens_used,
                                            usage'.total_cost) ]_vars

\* the writes there are: every on_generate that passes the key test, and
\* every reply whose image was stored, call save_settings; no other step does
SettingsWrites ==
    [][ lastOp'.saved
        <=> \/ lastOp'.op = "on_generate"
               /\ lastOp'.outcome \in {"called", "dir_error", "import_error"}
            \/ lastOp'.op \in {"capture_reply", "generate_reply"}
               /\ lastOp'.outcome = "stored" ]_vars

\* a settings file is replaced only by a step that calls save_settings
FileChangesOnlyWhenSaving ==
    [][ settings_file' # settings_file => lastOp'.saved ]_vars

\* C23: on_capture_viewport with a key asks for confirmation exactly when
\* _execute_capture_viewport has run before: then it ends declined or with
\* a Timer thread scheduled, and has changed nothing else; declined, it
\* issues no call and leaves Prompt_history, the reference, the captured
\* flag and the last result as they were.  The first Capture runs
\* _execute_capture_viewport at once on the GUI thread, and a Timer thread
\* runs it only after a confirmation.
C23_ConfirmBeforeRecapture ==
    [][ /\ (lastOp'.op = "on_capture_viewport" /\ api_key)
           => /\ purges > 0
              /\ lastOp'.outcome \in {"declined", "scheduled"}
              /\ UNCHANGED <<session, first_capture, result, usage, persisted,
                             api_calls, purges, timer_running>>
        /\ (lastOp'.op = "on_capture_viewport" /\ lastOp'.outcome = "declined")
           => UNCHANGED thread
        /\ (lastOp'.op = "execute_capture" /\ lastOp'.th = GUI)
           => purges = 0 /\ thread[GUI].pc = "idle"
        /\ (lastOp'.op = "execute_capture" /\ lastOp'.th # GUI)
           => purges > 0 /\ thread[lastOp'.th].pc = "delay" ]_vars

\* C23 witness: after a Capture and a Generate whose image was stored, a
\* second Capture was declined
C23_Witness ==
    /\ lastOp.op = "on_capture_viewport"
    /\ lastOp.outcome = "declined"
    /\ purges = 1
    /\ Len(Prompt_history) = 4
    /\ last_generated_image_path = "chat"

\* C24: no Capture, confirmed Capture or click on the Generate button issues
\* a generate_content call while another call has not returned.
C24_Original ==
    [][ api_calls' = api_calls + 1 => InFlight = {} ]_vars

\* the calls issued by handlers on the GUI thread never overlap each other
GuiCallsDoNotOverlap ==
    [][ (api_calls' = api_calls + 1 /\ lastOp'.th = GUI)
        => thread[GUI].pc = "idle" ]_vars

\* C25: every step that changes Prompt_history, the reference, the captured
\* flag or the last result runs on the GUI thread, and while it runs no other
\* thread is inside a Capture or Generate body waiting for its call.
C25_Original ==
    [][ (session' # session \/ result' # result)
        => /\ lastOp'.th = GUI
           /\ InFlight \ {lastOp'.th} = {} ]_vars

\* the bodies of on_generate and on_iterate, and of a first Capture, run on
\* the GUI thread
GuiBodies ==
    [][ (\/ lastOp'.op \in {"on_generate", "generate_reply", "on_iterate"}
         \/ lastOp'.op = "execute_capture" /\ purges = 0)
        => lastOp'.th = GUI ]_vars

\* C26: a round of the timer thread changes nothing but the display of the
\* elapsed time; the step that stops the timer leaves the timer thread ended
\* and timer_label showing the elapsed time; and while no action runs no
\* queued update changes timer_label.
C26_Original ==
    [][ /\ lastOp'.op = "timer_worker"
           => UNCHANGED <<session, first_capture, result, buttons, widgets, usage,
                          persisted, thread, api_calls, purges>>
        /\ (timer_running /\ ~timer_running')
           => ~timer_thread' /\ timer_label' = elapsed
        /\ (lastOp'.op = "async_update" /\ ~timer_running)
           => timer_label' = timer_label ]_vars

\* the timer thread writes no conversation state, result, button or counter
TimerWorkerWritesDisplayOnly ==
    [][ lastOp'.op = "timer_worker"
        => UNCHANGED <<session, first_capture, result, buttons, widgets, usage,
                       persisted, thread, api_calls, purges, timer_running,
                       elapsed, timer_thread, timer_label>> ]_vars

\* when the timer is stopped the timer thread has ended and timer_label shows
\* the elapsed time
StopJoinsBeforeFinalTime ==
    [][ (timer_running /\ ~timer_running')
        => ~timer_thread' /\ timer_label' = elapsed ]_vars

\* C27: no part of on_generate changes the reference, whether the call is
\* not made, raises, or returns a reply with or without an image; a step
\* that changes the reference is a part of a Capture or an Iterate.
C27_GenerateKeepsReference ==
    [][ /\ lastOp'.op \in {"on_generate", "generate_reply"}
           => captured_viewport_bytes' = captured_viewport_bytes
        /\ captured_viewport_bytes' # captured_viewport_bytes
           => lastOp'.op \in {"execute_capture", "capture_reply", "on_iterate"} ]_vars

\* C27 witness: a Generate's reply was stored and the reference is still what
\* the Capture left, not the generated image
C27_Witness ==
    /\ lastOp.op = "generate_reply"
    /\ lastOp.outcome = "stored"
    /\ last_generated_image_path = "chat"
    /\ output_file = ApiImage(2)
    /\ captured_viewport_bytes # NoBytes
    /\ captured_viewport_bytes # output_file

\* the roles of a contents list are user, model, user, ... in turn
Alternates(history) ==
    \A i \in DOMAIN history :
        history[i].role = (IF i % 2 = 1 THEN "user" ELSE "model")

\* C28: Prompt_history is empty or starts with a user turn and alternates
\* user and model turns.
C28_Original == Alternates(Prompt_history)

\* the contents of a call that is in flight end with a user turn
SentEndsWithUser ==
    \A t \in InFlight : Last(thread[t].contents).role = "user"

\* C29: while generate_btn is enabled a reference is captured, and while
\* iterate_btn is enabled a last generated image is named and its file exists.
C29_Original ==
    /\ generate_btn => GeneratePrecondition(viewport_captured, captured_viewport_bytes)
    /\ iterate_btn => IteratePrecondition(last_generated_image_path, output_file)

\* the Generate half of C29: generate_btn is enabled only with a reference
GenerateEnabledWithReference ==
    generate_btn => GeneratePrecondition(viewport_captured, captured_viewport_bytes)

====
